---- MODULE Spec2Model ----
(***************************************************************************)
(* Model of the Athena trading bot control loop:                           *)
(*   bot/core/bot_manager.py  BotManager  (initialize, run_cycle, the      *)
(*                            signal generator, the risk gate, the trade   *)
(*                            executor, the cycle error handler, cleanup)  *)
(*   bot/apps/main.py         TradingBotApp (start: the main loop)         *)
(* The collaborators ExchangeManager, DataManager and MetricsCollector     *)
(* are imported by bot_manager.py but their modules are not part of the    *)
(* sources at hand; their calls are modelled by their outcome (return or   *)
(* raise), and the error counter kept by MetricsCollector is modelled      *)
(* from the specification of MetricsPort.                                  *)
(***************************************************************************)
EXTENDS Integers, Sequences, FiniteSets, TLC

(***************************************************************************)
(* Python values that the code compares or looks up.                       *)
(***************************************************************************)
PyInt(n) == [type |-> "int", val |-> n]
PyNone == [type |-> "none", val |-> 0]
IsNumber(v) == v.type = "int"

\* An empty dict; dicts are functions from their keys.
EmptyDict == [k \in {} |-> 0]

\* dict.get(key, default)
DictGet(d, k, default) == IF k \in DOMAIN d THEN d[k] ELSE default

(***************************************************************************)
(* Configuration (loaded once, read-only).                                 *)
(***************************************************************************)
\* config['bot']['exchanges'][0]['symbols'], in configured order
SymbolNames == <<"BTC", "ETH", "SOL">>
MaxSymbols == 2
Symbols == SubSeq(SymbolNames, 1, MaxSymbols)
SymbolSet == {Symbols[i] : i \in 1..Len(Symbols)}

\* config['bot']['ops']['error_threshold'] values considered
ErrorThresholds == {3, 5, 6}

\* config['bot']['risk']: the two caps; a config may lack a key
ExposureCaps == {-1, 20}
LossCaps == {-1, 5}
RiskConfigs ==
    {[global_exposure_cap_pct |-> PyInt(e), daily_loss_cap_pct |-> PyInt(l)] :
        e \in ExposureCaps, l \in LossCaps}
    \cup {[daily_loss_cap_pct |-> PyInt(5)]}

\* config['bot']['strategy']
StrategyConfigs ==
    {[type |-> "mean_reversion",
      entry |-> [rsi_low |-> PyInt(30)],
      exit |-> [rsi_high |-> PyInt(70)]]}

Configs ==
    [error_threshold : ErrorThresholds,
     risk : RiskConfigs,
     strategy : StrategyConfigs,
     mode : {"paper"}]

(***************************************************************************)
(* Market snapshots returned by DataManager.get_latest_data(): a dict      *)
(* symbol -> indicator bundle; a bundle may lack 'rsi', and an 'rsi' may   *)
(* be None.                                                                *)
(***************************************************************************)
RsiValues == {PyInt(25), PyInt(50), PyInt(75), PyNone}
Bundles ==
    {[timestamp |-> PyInt(1)]}
    \cup {[rsi |-> r, timestamp |-> PyInt(1)] : r \in RsiValues}
Snapshots == UNION {[S -> Bundles] : S \in SUBSET SymbolSet}

(***************************************************************************)
(* BotManager._mean_reversion_signal (pure).  The result is               *)
(* [kind |-> "none"] (returns None), [kind |-> "raise"] (TypeError or      *)
(* ZeroDivisionError) or [kind |-> "signal", signal |-> ...].              *)
(* signal_strength is the quotient num / den of the code, kept as a pair.  *)
(***************************************************************************)
\* Faulty variant: an RSI equal to a threshold already gives a signal.
MeanReversionSignalInclusive(symbol, data, strat) ==
    IF DOMAIN data = {} \/ "rsi" \notin DOMAIN data
    THEN [kind |-> "none"]
    ELSE LET rsi == data["rsi"]
             low == strat.entry.rsi_low
             high == strat.exit.rsi_high
         IN  IF ~IsNumber(rsi) \/ ~IsNumber(low)
             THEN [kind |-> "raise"]
             ELSE IF rsi.val <= low.val
             THEN IF low.val = 0
                  THEN [kind |-> "raise"]
                  ELSE [kind |-> "signal",
                        signal |-> [symbol |-> symbol,
                                    action |-> "buy",
                                    signal_strength |->
                                        [num |-> low.val - rsi.val, den |-> low.val],
                                    timestamp |-> DictGet(data, "timestamp", PyNone),
                                    reason |-> [text |-> "RSI oversold", rsi |-> rsi.val]]]
             ELSE IF ~IsNumber(high)
             THEN [kind |-> "raise"]
             ELSE IF rsi.val >= high.val
             THEN IF 100 - high.val = 0
                  THEN [kind |-> "raise"]
                  ELSE [kind |-> "signal",
                        signal |-> [symbol |-> symbol,
                                    action |-> "sell",
                                    signal_strength |->
                                        [num |-> rsi.val - high.val, den |-> 100 - high.val],
                                    timestamp |-> DictGet(data, "timestamp", PyNone),
                                    reason |-> [text |-> "RSI overbought", rsi |-> rsi.val]]]
             ELSE [kind |-> "none"]

\* _mean_reversion_signal
MeanReversionSignal(symbol, data, strat) ==
    IF DOMAIN data = {} \/ "rsi" \notin DOMAIN data
    THEN [kind |-> "none"]
    ELSE LET rsi == data["rsi"]
             low == strat.entry.rsi_low
             high == strat.exit.rsi_high
         IN  IF ~IsNumber(rsi) \/ ~IsNumber(low)
             THEN [kind |-> "raise"]
             ELSE IF rsi.val < low.val
             THEN IF low.val = 0
                  THEN [kind |-> "raise"]
                  ELSE [kind |-> "signal",
                        signal |-> [symbol |-> symbol,
                                    action |-> "buy",
                                    signal_strength |->
                                        [num |-> low.val - rsi.val, den |-> low.val],
                                    timestamp |-> DictGet(data, "timestamp", PyNone),
                                    reason |-> [text |-> "RSI oversold", rsi |-> rsi.val]]]
             ELSE IF ~IsNumber(high)
             THEN [kind |-> "raise"]
             ELSE IF rsi.val > high.val
             THEN IF 100 - high.val = 0
                  THEN [kind |-> "raise"]
                  ELSE [kind |-> "signal",
                        signal |-> [symbol |-> symbol,
                                    action |-> "sell",
                                    signal_strength |->
                                        [num |-> rsi.val - high.val, den |-> 100 - high.val],
                                    timestamp |-> DictGet(data, "timestamp", PyNone),
                                    reason |-> [text |-> "RSI overbought", rsi |-> rsi.val]]]
             ELSE [kind |-> "none"]

(***************************************************************************)
(* BotManager._generate_signals (pure): the loop over the configured       *)
(* symbols, from index i on, with the signals accumulated so far.          *)
(* Result: [raised |-> BOOLEAN, signals |-> sequence].                     *)
(***************************************************************************)
RECURSIVE GenerateFrom(_, _, _, _)
GenerateFrom(i, acc, market_data, strat) ==
    IF i > Len(Symbols)
    THEN [raised |-> FALSE, signals |-> acc]
    ELSE LET symbol == Symbols[i]
             symbol_data == DictGet(market_data, symbol, EmptyDict)
         IN  IF strat.type = "mean_reversion"
             THEN LET s == MeanReversionSignal(symbol, symbol_data, strat)
                  IN  IF s.kind = "raise"
                      THEN [raised |-> TRUE, signals |-> <<>>]
                      ELSE IF s.kind = "signal"
                      THEN GenerateFrom(i + 1, Append(acc, s.signal), market_data, strat)
                      ELSE GenerateFrom(i + 1, acc, market_data, strat)
             ELSE GenerateFrom(i + 1, acc, market_data, strat)

GenerateSignals(market_data, cfg) == GenerateFrom(1, <<>>, market_data, cfg.strategy)

(***************************************************************************)
(* BotManager._calculate_current_exposure / _calculate_daily_pnl:          *)
(* placeholders returning 0.0.                                             *)
(***************************************************************************)
CalculateCurrentExposure == PyInt(0)
CalculateDailyPnl == PyInt(0)

(***************************************************************************)
(* BotManager._assess_risks, as a function of the exposure and the P&L it  *)
(* obtains.  A missing cap key raises KeyError.                            *)
(* Result: [raised |-> BOOLEAN, assessment |-> <<record>> or <<>>].        *)
(***************************************************************************)
\* Faulty variant: the cap itself already fails the gate.
ExposureGateFailsAtCap(current_exposure, cap) == current_exposure.val >= cap.val

ExposureGateFails(current_exposure, cap) == current_exposure.val > cap.val

LossGateFails(daily_pnl, cap) == daily_pnl.val < -cap.val

\* Faulty variant: the signals are approved whatever the gates said.
ApprovedSignalsUngated(signals, can_trade) == signals

ApprovedSignals(signals, can_trade) == IF can_trade THEN signals ELSE <<>>

AssessRisks(signals, current_exposure, daily_pnl, risk_config) ==
    IF "global_exposure_cap_pct" \notin DOMAIN risk_config
       \/ "daily_loss_cap_pct" \notin DOMAIN risk_config
    THEN [raised |-> TRUE, assessment |-> <<>>]
    ELSE LET expFail == ExposureGateFails(current_exposure,
                                          risk_config["global_exposure_cap_pct"])
             lossFail == LossGateFails(daily_pnl, risk_config["daily_loss_cap_pct"])
             can_trade == ~expFail /\ ~lossFail
             reasons ==
                 (IF expFail
                  THEN <<[gate |-> "exposure", value |-> current_exposure.val]>>
                  ELSE <<>>)
                 \o (IF lossFail
                     THEN <<[gate |-> "loss", value |-> daily_pnl.val]>>
                     ELSE <<>>)
         IN  [raised |-> FALSE,
              assessment |-> <<[can_trade |-> can_trade,
                               reasons |-> reasons,
                               current_exposure |-> current_exposure.val,
                               daily_pnl |-> daily_pnl.val,
                               approved_signals |-> ApprovedSignals(signals, can_trade)]>>]

(***************************************************************************)
(* State.                                                                  *)
(***************************************************************************)
VARIABLES
    config,             \* BotManager.config
    exchange_manager,   \* "None" or "object"
    data_manager,       \* "None" or "object"
    metrics_collector,  \* "None" or "object"
    is_initialized,     \* BotManager.is_initialized
    is_running,         \* BotManager.is_running
    emergency_stop,     \* BotManager.emergency_stop
    error_count,        \* the error counter kept by the MetricsCollector object
    pc,                 \* position of the control thread inside BotManager
    last_call,          \* the BotManager method called last
    result,             \* how that call ended: "pending", "returned", "raised"
    outcome,            \* run_cycle: "completed", "failed", "skipped", "rejected"
    market_data,        \* run_cycle local: <<>> (unset) or <<snapshot>>
    signals,            \* run_cycle local: <<>> (unset) or <<sequence of signals>>
    risk_assessment,    \* run_cycle local: <<>> (unset) or <<assessment>>
    pending,            \* _execute_trades: the approved signals not yet iterated
    trace,              \* history: the steps of the current call, in order
    orders,             \* history: the dispatches of the current cycle, in order
    reported,           \* history: the payloads given to update_metrics this cycle
    streak,             \* history: failed cycles since the last completed one
    ever_initialized,   \* history: some initialize() call returned normally
    failed_stage,       \* history: the stage of the current cycle that raised, or "none"
    assess_in,          \* arguments of a direct _assess_risks evaluation
    assess_out,         \* its result
    gen_in,             \* arguments of a direct _generate_signals evaluation
    gen_out,            \* its result
    app_pc,             \* position of TradingBotApp.start, "none" without an app
    running,            \* TradingBotApp.running
    handlers_installed, \* _setup_signal_handlers() has run
    last_sleep,         \* the interval of the last asyncio.sleep of the loop, 0 if none
    shutdown_requested  \* history: the signal handler has run

bot_vars == <<config, exchange_manager, data_manager, metrics_collector,
              is_initialized, is_running, emergency_stop, error_count>>
ctl_vars == <<pc, last_call, result, outcome>>
cycle_vars == <<market_data, signals, risk_assessment, pending>>
hist_vars == <<trace, orders, reported, streak, ever_initialized, failed_stage>>
fn_vars == <<assess_in, assess_out, gen_in, gen_out>>
app_vars == <<app_pc, running, handlers_installed, last_sleep, shutdown_requested>>
vars == <<bot_vars, ctl_vars, cycle_vars, hist_vars, fn_vars, app_vars>>

\* The threshold written in _handle_cycle_error.
HardErrorLimit == 5

NoAssessIn == [signals |-> <<>>, current_exposure |-> PyInt(0),
               daily_pnl |-> PyInt(0), risk |-> EmptyDict]

NoGenIn == [snapshot |-> EmptyDict, strategy |-> EmptyDict]

(***************************************************************************)
(* BotManager.__init__                                                     *)
(***************************************************************************)
BotManagerInit ==
    /\ config \in Configs
    /\ exchange_manager = "None"
    /\ data_manager = "None"
    /\ metrics_collector = "None"
    /\ is_initialized = FALSE
    /\ is_running = FALSE
    /\ emergency_stop = FALSE
    /\ error_count = 0
    /\ pc = "idle"
    /\ last_call = "none"
    /\ result = "none"
    /\ outcome = "none"
    /\ market_data = <<>>
    /\ signals = <<>>
    /\ risk_assessment = <<>>
    /\ pending = <<>>
    /\ trace = <<>>
    /\ orders = <<>>
    /\ reported = <<>>
    /\ streak = 0
    /\ ever_initialized = FALSE
    /\ failed_stage = "none"

NoApp ==
    /\ app_pc = "none"
    /\ running = FALSE
    /\ handlers_installed = FALSE
    /\ last_sleep = 0
    /\ shutdown_requested = FALSE

Init ==
    /\ BotManagerInit
    /\ assess_in = NoAssessIn
    /\ assess_out = <<>>
    /\ gen_in = NoGenIn
    /\ gen_out = <<>>
    /\ NoApp

\* A call of a BotManager method starts: its frame is fresh.
Enter(method, first) ==
    /\ pc = "idle"
    /\ pc' = first
    /\ last_call' = method
    /\ result' = "pending"
    /\ outcome' = "none"
    /\ market_data' = <<>>
    /\ signals' = <<>>
    /\ risk_assessment' = <<>>
    /\ pending' = <<>>
    /\ trace' = <<>>
    /\ orders' = <<>>
    /\ reported' = <<>>
    /\ failed_stage' = "none"
    /\ UNCHANGED <<bot_vars, streak, ever_initialized, fn_vars>>

\* The call ends: it returns, or an exception leaves it.
Leave(how) ==
    /\ pc' = "idle"
    /\ result' = how

(***************************************************************************)
(* BotManager.initialize                                                   *)
(***************************************************************************)
\* Without an app the manager is driven by an arbitrary caller: between two
\* calls any method may be called next; nothing is called after cleanup().
Terminated == last_call = "cleanup" /\ pc = "idle"

CallInitialize ==
    /\ app_pc = "none"
    /\ ~Terminated
    /\ Enter("initialize", "init_exchange")
    /\ UNCHANGED app_vars

\* ExchangeManager(...) is assigned, then its initialize() is awaited.
InitExchange ==
    /\ pc = "init_exchange"
    /\ exchange_manager' = "object"
    /\ trace' = Append(trace, "exchange.initialize")
    /\ \/ /\ pc' = "init_data"
          /\ UNCHANGED result
       \/ Leave("raised")
    /\ UNCHANGED <<config, data_manager, metrics_collector, is_initialized,
                   is_running, emergency_stop, error_count, last_call, outcome,
                   cycle_vars, orders, reported, streak, ever_initialized, failed_stage, fn_vars, app_vars>>

InitData ==
    /\ pc = "init_data"
    /\ data_manager' = "object"
    /\ trace' = Append(trace, "data.initialize")
    /\ \/ /\ pc' = "init_metrics"
          /\ UNCHANGED result
       \/ Leave("raised")
    /\ UNCHANGED <<config, exchange_manager, metrics_collector, is_initialized,
                   is_running, emergency_stop, error_count, last_call, outcome,
                   cycle_vars, orders, reported, streak, ever_initialized, failed_stage, fn_vars, app_vars>>

\* A new MetricsCollector object: its error counter starts at 0.
NewMetricsCollector ==
    /\ metrics_collector' = "object"
    /\ error_count' = 0
    /\ streak' = 0

InitMetrics ==
    /\ pc = "init_metrics"
    /\ NewMetricsCollector
    /\ trace' = Append(trace, "metrics.initialize")
    /\ \/ /\ pc' = "safety_exchange"
          /\ UNCHANGED result
       \/ Leave("raised")
    /\ UNCHANGED <<config, exchange_manager, data_manager, is_initialized,
                   is_running, emergency_stop, last_call, outcome,
                   cycle_vars, orders, reported, ever_initialized, failed_stage, fn_vars, app_vars>>

\* _perform_safety_checks: the ntp_required branch is a pass;
\* exchange_manager.test_connections() is awaited and its value dropped; only
\* an exception stops the checks.
SafetyCheckExchange ==
    /\ pc = "safety_exchange"
    /\ \E probe \in {"true", "false", "raise"} :
        /\ trace' = Append(trace, "exchange.test_connections:" \o probe)
        /\ IF probe = "raise"
           THEN Leave("raised")
           ELSE pc' = "safety_data" /\ UNCHANGED result
    /\ UNCHANGED <<bot_vars, last_call, outcome, cycle_vars, orders, reported,
                   streak, ever_initialized, failed_stage, fn_vars, app_vars>>

\* Faulty variant: initialize() also puts the emergency stop back.
MarkInitializedClearingStop ==
    /\ is_initialized' = TRUE
    /\ emergency_stop' = FALSE
    /\ UNCHANGED is_running

\* self.is_initialized = True: the only flag initialize() writes.
MarkInitialized ==
    /\ is_initialized' = TRUE
    /\ UNCHANGED <<is_running, emergency_stop>>

\* data_manager.test_connection(), then is_initialized = True.
SafetyCheckData ==
    /\ pc = "safety_data"
    /\ \E probe \in {"true", "false", "raise"} :
        /\ trace' = Append(trace, "data.test_connection:" \o probe)
        /\ IF probe = "raise"
           THEN /\ Leave("raised")
                /\ UNCHANGED <<is_initialized, is_running, emergency_stop,
                               ever_initialized>>
           ELSE /\ MarkInitialized
                /\ ever_initialized' = TRUE
                /\ Leave("returned")
    /\ UNCHANGED <<config, exchange_manager, data_manager, metrics_collector,
                   error_count, last_call, outcome,
                   cycle_vars, orders, reported, streak, failed_stage, fn_vars, app_vars>>

(***************************************************************************)
(* BotManager.run_cycle                                                    *)
(***************************************************************************)
CallRunCycle ==
    /\ app_pc = "none"
    /\ ~Terminated
    /\ Enter("run_cycle", "run_cycle")
    /\ UNCHANGED app_vars

\* Faulty variant: the initialization test sits inside the try block, so its
\* RuntimeError goes to the cycle error handler.
RunCycleNotInitializedHandled ==
    /\ pc = "run_cycle"
    /\ ~is_initialized
    /\ pc' = "handle_error"
    /\ UNCHANGED <<bot_vars, last_call, result, outcome, cycle_vars, hist_vars,
                   fn_vars, app_vars>>

\* if not self.is_initialized: raise RuntimeError
RunCycleNotInitialized ==
    /\ pc = "run_cycle"
    /\ ~is_initialized
    /\ outcome' = "rejected"
    /\ Leave("raised")
    /\ UNCHANGED <<bot_vars, last_call, cycle_vars, hist_vars, fn_vars, app_vars>>

\* Faulty variant: the skipped cycle is counted as an error.
RunCycleSkippedCounted ==
    /\ pc = "run_cycle"
    /\ is_initialized
    /\ emergency_stop
    /\ outcome' = "skipped"
    /\ Leave("returned")
    /\ error_count' = error_count + 1
    /\ UNCHANGED <<config, exchange_manager, data_manager, metrics_collector,
                   is_initialized, is_running, emergency_stop, last_call,
                   cycle_vars, hist_vars, fn_vars, app_vars>>

\* if self.emergency_stop: return
RunCycleSkipped ==
    /\ pc = "run_cycle"
    /\ is_initialized
    /\ emergency_stop
    /\ outcome' = "skipped"
    /\ Leave("returned")
    /\ UNCHANGED <<bot_vars, last_call, cycle_vars, hist_vars, fn_vars, app_vars>>

\* market_data = await self.data_manager.get_latest_data()
FetchMarketData ==
    /\ pc = "run_cycle"
    /\ is_initialized
    /\ ~emergency_stop
    /\ trace' = Append(trace, "fetch")
    /\ \/ \E snapshot \in Snapshots :
            /\ market_data' = <<snapshot>>
            /\ pc' = "generate"
            /\ UNCHANGED failed_stage
       \/ /\ pc' = "handle_error"
          /\ failed_stage' = "fetch"
          /\ UNCHANGED market_data
    /\ UNCHANGED <<bot_vars, last_call, result, outcome, signals, risk_assessment,
                   pending, orders, reported, streak, ever_initialized, fn_vars, app_vars>>

\* Faulty variant: a failure of the generator is swallowed and the cycle goes
\* on with no signal.
GenerateStageSwallowing ==
    /\ pc = "generate"
    /\ trace' = Append(trace, "generate")
    /\ LET g == GenerateSignals(market_data[1], config)
       IN  /\ pc' = "assess"
           /\ signals' = <<g.signals>>
           /\ failed_stage' = IF g.raised THEN "generate" ELSE failed_stage
    /\ UNCHANGED <<bot_vars, last_call, result, outcome, market_data, risk_assessment,
                   pending, orders, reported, streak, ever_initialized, fn_vars, app_vars>>

\* signals = await self._generate_signals(market_data)
GenerateStage ==
    /\ pc = "generate"
    /\ trace' = Append(trace, "generate")
    /\ LET g == GenerateSignals(market_data[1], config)
       IN  IF g.raised
           THEN /\ pc' = "handle_error"
                /\ failed_stage' = "generate"
                /\ UNCHANGED signals
           ELSE /\ pc' = "assess"
                /\ signals' = <<g.signals>>
                /\ UNCHANGED failed_stage
    /\ UNCHANGED <<bot_vars, last_call, result, outcome, market_data, risk_assessment,
                   pending, orders, reported, streak, ever_initialized, fn_vars, app_vars>>

\* risk_assessment = await self._assess_risks(signals, market_data)
\* if risk_assessment['can_trade']: await self._execute_trades(signals, risk_assessment)
\* _execute_trades iterates risk_assessment['approved_signals'].
DispatchList(sigs, assessment) ==
    IF assessment.can_trade THEN assessment.approved_signals ELSE <<>>

\* Faulty variant: the can_trade test is gone and the executor iterates the
\* signals it is given.
AssessStageWithoutVeto ==
    /\ pc = "assess"
    /\ trace' = Append(trace, "assess")
    /\ LET a == AssessRisks(signals[1], CalculateCurrentExposure, CalculateDailyPnl,
                            config.risk)
       IN  IF a.raised
           THEN /\ pc' = "handle_error"
                /\ failed_stage' = "assess"
                /\ UNCHANGED <<risk_assessment, pending>>
           ELSE /\ risk_assessment' = a.assessment
                /\ pending' = signals[1]
                /\ pc' = "execute"
                /\ UNCHANGED failed_stage
    /\ UNCHANGED <<bot_vars, last_call, result, outcome, market_data, signals,
                   orders, reported, streak, ever_initialized, fn_vars, app_vars>>

AssessStage ==
    /\ pc = "assess"
    /\ trace' = Append(trace, "assess")
    /\ LET a == AssessRisks(signals[1], CalculateCurrentExposure, CalculateDailyPnl,
                            config.risk)
       IN  IF a.raised
           THEN /\ pc' = "handle_error"
                /\ failed_stage' = "assess"
                /\ UNCHANGED <<risk_assessment, pending>>
           ELSE /\ risk_assessment' = a.assessment
                /\ pending' = DispatchList(signals[1], a.assessment[1])
                /\ pc' = IF a.assessment[1].can_trade THEN "execute" ELSE "report"
                /\ UNCHANGED failed_stage
    /\ UNCHANGED <<bot_vars, last_call, result, outcome, market_data, signals,
                   orders, reported, streak, ever_initialized, fn_vars, app_vars>>

\* Faulty variant: the try block encloses the whole loop, so the first
\* failing dispatch ends the loop and the remaining signals are dropped.
ExecuteTradeAborting ==
    /\ pc = "execute"
    /\ pending # <<>>
    /\ \E ok \in BOOLEAN :
        /\ orders' = Append(orders, [signal |-> Head(pending), ok |-> ok])
        /\ trace' = Append(trace, "execute")
        /\ pending' = IF ok THEN Tail(pending) ELSE <<>>
    /\ UNCHANGED <<bot_vars, ctl_vars, market_data, signals, risk_assessment,
                   reported, streak, ever_initialized, failed_stage, fn_vars, app_vars>>

\* Faulty variant: the loop has no try block, so a failing dispatch leaves
\* _execute_trades and reaches the except clause of run_cycle.
ExecuteTradeEscalating ==
    /\ pc = "execute"
    /\ pending # <<>>
    /\ \E ok \in BOOLEAN :
        /\ orders' = Append(orders, [signal |-> Head(pending), ok |-> ok])
        /\ trace' = Append(trace, "execute")
        /\ pc' = IF ok THEN pc ELSE "handle_error"
        /\ failed_stage' = IF ok THEN failed_stage ELSE "execute"
    /\ pending' = Tail(pending)
    /\ UNCHANGED <<bot_vars, last_call, result, outcome, market_data, signals,
                   risk_assessment, reported, streak, ever_initialized,
                   fn_vars, app_vars>>

\* _execute_trades: one iteration of the loop; an exception of
\* _execute_single_trade is caught and logged inside the loop.
ExecuteTrade ==
    /\ pc = "execute"
    /\ pending # <<>>
    /\ \E ok \in BOOLEAN :
        /\ orders' = Append(orders, [signal |-> Head(pending), ok |-> ok])
        /\ trace' = Append(trace, "execute")
    /\ pending' = Tail(pending)
    /\ UNCHANGED <<bot_vars, ctl_vars, market_data, signals, risk_assessment,
                   reported, streak, ever_initialized, failed_stage, fn_vars, app_vars>>

\* the loop of _execute_trades is over
ExecuteTradesDone ==
    /\ pc = "execute"
    /\ pending = <<>>
    /\ pc' = "report"
    /\ UNCHANGED <<bot_vars, last_call, result, outcome, cycle_vars, hist_vars, fn_vars, app_vars>>

\* MetricsCollector.update_metrics (MetricsPort.record_cycle): the payload is
\* recorded; the port has no operation that sets the error counter back.
UpdateMetrics(payload) ==
    /\ reported' = Append(reported, payload)
    /\ UNCHANGED error_count

\* await self.metrics_collector.update_metrics({...})
ReportStage ==
    /\ pc = "report"
    /\ trace' = Append(trace, "report")
    /\ \/ /\ UpdateMetrics([cycle_completed |-> TRUE,
                            signals_generated |-> Len(signals[1]),
                            trades_executed |-> 0])
          /\ streak' = 0
          /\ outcome' = "completed"
          /\ Leave("returned")
          /\ UNCHANGED failed_stage
       \/ /\ pc' = "handle_error"
          /\ failed_stage' = "report"
          /\ UNCHANGED <<reported, error_count, streak, outcome, result>>
    /\ UNCHANGED <<config, exchange_manager, data_manager, metrics_collector,
                   is_initialized, is_running, emergency_stop, last_call,
                   cycle_vars, orders, ever_initialized, fn_vars, app_vars>>

\* MetricsCollector.increment_error_count / get_error_count
IncrementErrorCount(n) == n + 1

\* if error_count > 5: self.emergency_stop = True
KillSwitchTrips(count) == count > HardErrorLimit

\* Faulty variant: the handler raises the error again after counting it.
HandleCycleErrorReraising ==
    /\ pc = "handle_error"
    /\ trace' = Append(trace, "handle_error")
    /\ error_count' = IncrementErrorCount(error_count)
    /\ emergency_stop' = (emergency_stop \/ KillSwitchTrips(error_count'))
    /\ streak' = streak + 1
    /\ outcome' = "failed"
    /\ Leave("raised")
    /\ UNCHANGED <<config, exchange_manager, data_manager, metrics_collector,
                   is_initialized, is_running, last_call, cycle_vars, orders,
                   reported, ever_initialized, failed_stage, fn_vars, app_vars>>

\* except Exception as e: await self._handle_cycle_error(e)
HandleCycleError ==
    /\ pc = "handle_error"
    /\ trace' = Append(trace, "handle_error")
    /\ error_count' = IncrementErrorCount(error_count)
    /\ emergency_stop' = (emergency_stop \/ KillSwitchTrips(error_count'))
    /\ streak' = streak + 1
    /\ outcome' = "failed"
    /\ Leave("returned")
    /\ UNCHANGED <<config, exchange_manager, data_manager, metrics_collector,
                   is_initialized, is_running, last_call, cycle_vars, orders,
                   reported, ever_initialized, failed_stage, fn_vars, app_vars>>

(***************************************************************************)
(* BotManager.cleanup: exchange, data, metrics, each if it was created;    *)
(* an exception of a component's cleanup() leaves cleanup().               *)
(***************************************************************************)
CallCleanup ==
    /\ app_pc = "none"
    /\ ~Terminated
    /\ Enter("cleanup", "cleanup_exchange")
    /\ UNCHANGED app_vars

CleanupStep(at, component, name, next) ==
    /\ pc = at
    /\ IF component = "None"
       THEN /\ UNCHANGED trace
            /\ IF next = "idle" THEN Leave("returned") ELSE pc' = next /\ UNCHANGED result
       ELSE /\ trace' = Append(trace, name)
            /\ \/ IF next = "idle" THEN Leave("returned") ELSE pc' = next /\ UNCHANGED result
               \/ Leave("raised")
    /\ UNCHANGED <<bot_vars, last_call, outcome, cycle_vars, orders, reported,
                   streak, ever_initialized, failed_stage, fn_vars, app_vars>>

CleanupExchange ==
    CleanupStep("cleanup_exchange", exchange_manager, "exchange.cleanup", "cleanup_data")

CleanupData ==
    CleanupStep("cleanup_data", data_manager, "data.cleanup", "cleanup_metrics")

CleanupMetrics ==
    CleanupStep("cleanup_metrics", metrics_collector, "metrics.cleanup", "idle")

(***************************************************************************)
(* The steps inside BotManager, whoever called; the rejection of a cycle   *)
(* on a manager that is not initialized is listed by the caller that can   *)
(* meet it.                                                                *)
(***************************************************************************)
ManagerStep ==
    \/ InitExchange
    \/ InitData
    \/ InitMetrics
    \/ SafetyCheckExchange
    \/ SafetyCheckData
    \/ RunCycleSkipped
    \/ FetchMarketData
    \/ GenerateStage
    \/ AssessStage
    \/ ExecuteTrade
    \/ ExecuteTradesDone
    \/ ReportStage
    \/ HandleCycleError
    \/ CleanupExchange
    \/ CleanupData
    \/ CleanupMetrics

(***************************************************************************)
(* The manager driven by an arbitrary caller.                              *)
(***************************************************************************)
Next ==
    \/ CallInitialize
    \/ CallRunCycle
    \/ CallCleanup
    \/ RunCycleNotInitialized
    \/ ManagerStep

Spec == Init /\ [][Next]_vars

(***************************************************************************)
(* TradingBotApp.start: initialize, install the signal handlers, loop      *)
(* while running, cleanup in the finally clause.                           *)
(* run_cycle() raises only when is_initialized is false, and the loop is   *)
(* entered only after initialize() returned (AppCycleNeverRaises below), so *)
(* the except clause of the loop body takes no step here.                  *)
(***************************************************************************)
\* await asyncio.sleep(1)
CycleSleep == 1

AppInit ==
    /\ BotManagerInit
    /\ assess_in = NoAssessIn
    /\ assess_out = <<>>
    /\ gen_in = NoGenIn
    /\ gen_out = <<>>
    /\ app_pc = "start"
    /\ running = FALSE
    /\ handlers_installed = FALSE
    /\ last_sleep = 0
    /\ shutdown_requested = FALSE

\* self.bot_manager = BotManager(self.config); await self.bot_manager.initialize()
AppStart ==
    /\ app_pc = "start"
    /\ Enter("initialize", "init_exchange")
    /\ app_pc' = "initializing"
    /\ UNCHANGED <<running, handlers_installed, last_sleep, shutdown_requested>>

\* Faulty variant: the failure of initialize() is logged and start() goes on
\* to the handlers and the main loop.
AppInitFailedContinuing ==
    /\ app_pc = "initializing"
    /\ pc = "idle"
    /\ result = "raised"
    /\ handlers_installed' = TRUE
    /\ app_pc' = "set_running"
    /\ UNCHANGED <<bot_vars, ctl_vars, cycle_vars, hist_vars, fn_vars,
                   running, last_sleep, shutdown_requested>>

\* initialize() raised: except ... raise, through the finally clause
AppInitFailed ==
    /\ app_pc = "initializing"
    /\ pc = "idle"
    /\ result = "raised"
    /\ app_pc' = "finally"
    /\ UNCHANGED <<bot_vars, ctl_vars, cycle_vars, hist_vars, fn_vars,
                   running, handlers_installed, last_sleep, shutdown_requested>>

\* self._setup_signal_handlers()
AppSetupSignalHandlers ==
    /\ app_pc = "initializing"
    /\ pc = "idle"
    /\ result = "returned"
    /\ handlers_installed' = TRUE
    /\ app_pc' = "set_running"
    /\ UNCHANGED <<bot_vars, ctl_vars, cycle_vars, hist_vars, fn_vars,
                   running, last_sleep, shutdown_requested>>

\* self.running = True
AppSetRunning ==
    /\ app_pc = "set_running"
    /\ running' = TRUE
    /\ app_pc' = "loop_test"
    /\ UNCHANGED <<bot_vars, ctl_vars, cycle_vars, hist_vars, fn_vars,
                   handlers_installed, last_sleep, shutdown_requested>>

\* while self.running: await self.bot_manager.run_cycle()
AppLoopCycle ==
    /\ app_pc = "loop_test"
    /\ running
    /\ Enter("run_cycle", "run_cycle")
    /\ app_pc' = "in_cycle"
    /\ UNCHANGED <<running, handlers_installed, last_sleep, shutdown_requested>>

\* while self.running: false, the loop is left for the finally clause
AppLoopExit ==
    /\ app_pc = "loop_test"
    /\ ~running
    /\ app_pc' = "finally"
    /\ UNCHANGED <<bot_vars, ctl_vars, cycle_vars, hist_vars, fn_vars,
                   running, handlers_installed, last_sleep, shutdown_requested>>

\* run_cycle() returned: await asyncio.sleep(1)
AppSleepAfterCycle ==
    /\ app_pc = "in_cycle"
    /\ pc = "idle"
    /\ result = "returned"
    /\ last_sleep' = CycleSleep
    /\ app_pc' = "sleeping"
    /\ UNCHANGED <<bot_vars, ctl_vars, cycle_vars, hist_vars, fn_vars,
                   running, handlers_installed, shutdown_requested>>

\* the sleep is over: back to the loop test
AppWake ==
    /\ app_pc = "sleeping"
    /\ app_pc' = "loop_test"
    /\ UNCHANGED <<bot_vars, ctl_vars, cycle_vars, hist_vars, fn_vars,
                   running, handlers_installed, last_sleep, shutdown_requested>>

\* finally: await self.cleanup() -> self.bot_manager.cleanup()
AppFinally ==
    /\ app_pc = "finally"
    /\ Enter("cleanup", "cleanup_exchange")
    /\ app_pc' = "cleaning"
    /\ UNCHANGED <<running, handlers_installed, last_sleep, shutdown_requested>>

\* cleanup() is over: start() ends
AppExit ==
    /\ app_pc = "cleaning"
    /\ pc = "idle"
    /\ app_pc' = "exited"
    /\ UNCHANGED <<bot_vars, ctl_vars, cycle_vars, hist_vars, fn_vars,
                   running, handlers_installed, last_sleep, shutdown_requested>>

\* Faulty variant: the handler also abandons the cycle in flight and sends
\* start() to its finally clause.
SignalHandlerCancelling ==
    /\ handlers_installed
    /\ app_pc # "exited"
    /\ running' = FALSE
    /\ shutdown_requested' = TRUE
    /\ app_pc' = IF app_pc = "in_cycle" THEN "finally" ELSE app_pc
    /\ UNCHANGED <<bot_vars, ctl_vars, cycle_vars, hist_vars, fn_vars,
                   handlers_installed, last_sleep>>

\* signal_handler(signum, frame): self.running = False, at any point once
\* the handlers are installed
SignalHandler ==
    /\ handlers_installed
    /\ app_pc # "exited"
    /\ running' = FALSE
    /\ shutdown_requested' = TRUE
    /\ UNCHANGED <<bot_vars, ctl_vars, cycle_vars, hist_vars, fn_vars,
                   app_pc, handlers_installed, last_sleep>>

AppNext ==
    \/ AppStart
    \/ AppInitFailed
    \/ AppSetupSignalHandlers
    \/ AppSetRunning
    \/ AppLoopCycle
    \/ AppLoopExit
    \/ AppSleepAfterCycle
    \/ AppWake
    \/ AppFinally
    \/ AppExit
    \/ SignalHandler
    \/ ManagerStep

AppSpec == AppInit /\ [][AppNext]_vars

(***************************************************************************)
(* _assess_risks evaluated on its own, for arbitrary exposure and P&L:     *)
(* the arguments are drawn at the start, the step applies the function.    *)
(***************************************************************************)
Exposures == {PyInt(0), PyInt(20), PyInt(21)}
DailyPnls == {PyInt(0), PyInt(-5), PyInt(-6)}

\* the signal sequences the generator yields for the snapshots considered
SignalSeqs ==
    {GenerateSignals(m, c).signals :
        m \in {n \in Snapshots : ~GenerateSignals(n, CHOOSE d \in Configs : TRUE).raised},
        c \in {CHOOSE d \in Configs : TRUE}}

RiskInit ==
    /\ BotManagerInit
    /\ NoApp
    /\ assess_in \in [signals : SignalSeqs,
                      current_exposure : Exposures,
                      daily_pnl : DailyPnls,
                      risk : {config.risk}]
    /\ assess_out = <<>>
    /\ gen_in = NoGenIn
    /\ gen_out = <<>>

ApplyAssessRisks ==
    /\ assess_out = <<>>
    /\ assess_out' = <<AssessRisks(assess_in.signals, assess_in.current_exposure,
                                   assess_in.daily_pnl, assess_in.risk)>>
    /\ UNCHANGED <<bot_vars, ctl_vars, cycle_vars, hist_vars, assess_in,
                   gen_in, gen_out, app_vars>>

RiskNext == ApplyAssessRisks

RiskSpec == RiskInit /\ [][RiskNext]_vars

(***************************************************************************)
(* _generate_signals evaluated on its own, for snapshots and thresholds    *)
(* beyond those of the cycle: the arguments are drawn at the start, the    *)
(* step applies the function.                                              *)
(***************************************************************************)
\* 'rsi' values: inside 0..100, at its ends, outside of it, and None
SignalRsiValues ==
    {PyInt(-5), PyInt(0), PyInt(30), PyInt(50), PyInt(70), PyInt(100),
     PyInt(105), PyNone}
SignalBundles ==
    {[timestamp |-> PyInt(1)]}
    \cup {[rsi |-> r, timestamp |-> PyInt(1)] : r \in SignalRsiValues}
SignalSnapshots == UNION {[S -> SignalBundles] : S \in SUBSET SymbolSet}

\* strategy['entry']['rsi_low'] and strategy['exit']['rsi_high'] considered
RsiLows == {0, 30, 70}
RsiHighs == {30, 70, 100}
SignalStrategies ==
    {[type |-> "mean_reversion",
      entry |-> [rsi_low |-> PyInt(l)],
      exit |-> [rsi_high |-> PyInt(h)]] : l \in RsiLows, h \in RsiHighs}

SignalInit ==
    /\ BotManagerInit
    /\ NoApp
    /\ assess_in = NoAssessIn
    /\ assess_out = <<>>
    /\ gen_in \in [snapshot : SignalSnapshots, strategy : SignalStrategies]
    /\ gen_out = <<>>

ApplyGenerateSignals ==
    /\ gen_out = <<>>
    /\ gen_out' = <<GenerateSignals(gen_in.snapshot, [strategy |-> gen_in.strategy])>>
    /\ UNCHANGED <<bot_vars, ctl_vars, cycle_vars, hist_vars, assess_in,
                   assess_out, gen_in, app_vars>>

SignalNext == ApplyGenerateSignals

SignalSpec == SignalInit /\ [][SignalNext]_vars

(***************************************************************************)
(* Properties.                                                             *)
(***************************************************************************)
Range(seq) == {seq[i] : i \in DOMAIN seq}

Occurrences(seq, x) == Cardinality({i \in DOMAIN seq : seq[i] = x})

\* A run_cycle() call has ended.
CycleEnded == pc = "idle" /\ last_call = "run_cycle"

\* C1: with the configured error_threshold N, counting failed cycles in a row
\* from an error count of 0, emergency_stop is false after each of the first N
\* failures and true after the (N+1)-th; the call after that is skipped
\* without raising.
C1_KillSwitchAtConfiguredThreshold ==
    /\ (CycleEnded /\ outcome = "failed" /\ error_count = streak)
          => (emergency_stop <=> streak > config.error_threshold)
    /\ (CycleEnded /\ outcome = "skipped") => result = "returned"

\* The kill switch as the code has it: the limit is the written one.
KillSwitchAtHardLimit ==
    (CycleEnded /\ outcome = "failed")
        => (emergency_stop <=> error_count > HardErrorLimit)

\* C2: a completed cycle leaves the error count at 0, and the kill switch
\* trips only at the end of more than error_threshold failed cycles in a row.
C2_OnlyConsecutiveFailuresTrip ==
    /\ (CycleEnded /\ outcome = "completed") => error_count = 0
    /\ (CycleEnded /\ outcome = "failed" /\ emergency_stop)
          => streak > config.error_threshold

\* C3: once emergency_stop is true, no step of initialize, run_cycle, the
\* error handler or cleanup makes it false.
C3_EmergencyStopMonotonic == [][emergency_stop => emergency_stop']_vars

\* C3 witness: initialize() ran to its end after the kill switch had tripped.
C3_Witness ==
    emergency_stop /\ last_call = "initialize" /\ pc = "idle" /\ result = "returned"

\* C4: run_cycle() on an initialized manager with emergency_stop set returns
\* normally and changes nothing: no fetch, no signal, no assessment, no
\* order, no metrics, no error counted.
C4_StoppedCycleIsNoOp ==
    [][(pc = "run_cycle" /\ is_initialized /\ emergency_stop)
          => /\ pc' = "idle"
             /\ result' = "returned"
             /\ outcome' = "skipped"
             /\ UNCHANGED <<bot_vars, cycle_vars, trace, orders, reported, streak>>
             /\ market_data' = <<>> /\ signals' = <<>> /\ risk_assessment' = <<>>
             /\ trace' = <<>> /\ orders' = <<>> /\ reported' = <<>>]_vars

C4_Witness == CycleEnded /\ outcome = "skipped" /\ emergency_stop

\* C5: in a cycle whose assessment has can_trade = false nothing is
\* dispatched, and every dispatch of a cycle is of a signal of that cycle's
\* approved_signals.
C5_VetoBlocksAllOrders ==
    /\ (risk_assessment # <<>> /\ ~risk_assessment[1].can_trade) => orders = <<>>
    /\ \A i \in DOMAIN orders :
          /\ risk_assessment # <<>>
          /\ orders[i].signal \in Range(risk_assessment[1].approved_signals)

\* C5 witness: a cycle with two signals ran to its end under a veto.
C5_Witness ==
    /\ CycleEnded /\ outcome = "completed"
    /\ ~risk_assessment[1].can_trade
    /\ Len(signals[1]) = 2
    /\ orders = <<>>

\* C6: approved_signals is the empty sequence when can_trade is false and
\* the input sequence when it is true; so it is a part of the input, and
\* non-empty only if can_trade.
C6_ApprovedAllOrNothing ==
    (assess_out # <<>> /\ ~assess_out[1].raised) =>
        LET a == assess_out[1].assessment[1]
        IN  /\ ~a.can_trade => a.approved_signals = <<>>
            /\ a.can_trade => a.approved_signals = assess_in.signals
            /\ Range(a.approved_signals) \subseteq Range(assess_in.signals)
            /\ Len(a.approved_signals) > 0 => a.can_trade

C6_Witness ==
    /\ assess_out # <<>> /\ ~assess_out[1].raised
    /\ ~assess_out[1].assessment[1].can_trade
    /\ Len(assess_in.signals) = 2

\* C7: can_trade is false exactly when exposure > global_exposure_cap_pct or
\* daily_pnl < -daily_loss_cap_pct (strictly); reasons has one entry per
\* failed gate, exposure before loss.
C7_GatesStrictAndIndependent ==
    (assess_out # <<>> /\ ~assess_out[1].raised) =>
        LET a == assess_out[1].assessment[1]
            e == assess_in.current_exposure.val
            d == assess_in.daily_pnl.val
            ecap == assess_in.risk["global_exposure_cap_pct"].val
            lcap == assess_in.risk["daily_loss_cap_pct"].val
            gates == [i \in DOMAIN a.reasons |-> a.reasons[i].gate]
        IN  /\ ~a.can_trade <=> (e > ecap \/ d < 0 - lcap)
            /\ gates = (IF e > ecap THEN <<"exposure">> ELSE <<>>)
                       \o (IF d < 0 - lcap THEN <<"loss">> ELSE <<>>)

\* C7 witness: exposure and loss both exactly at their caps, and trading allowed.
C7_Witness ==
    /\ assess_out # <<>> /\ ~assess_out[1].raised
    /\ assess_in.current_exposure.val = assess_in.risk["global_exposure_cap_pct"].val
    /\ assess_in.daily_pnl.val = 0 - assess_in.risk["daily_loss_cap_pct"].val
    /\ assess_out[1].assessment[1].can_trade

\* C8: run_cycle() while no initialize() has returned normally raises, and
\* does nothing else: no stage, no order, no flag or count changed, and the
\* error handler is not entered.
C8_NotInitializedRaises ==
    [][(pc = "run_cycle" /\ ~ever_initialized)
          => /\ pc' = "idle"
             /\ result' = "raised"
             /\ UNCHANGED <<bot_vars, cycle_vars, trace, orders, reported, streak>>
             /\ trace' = <<>> /\ orders' = <<>> /\ reported' = <<>>]_vars

\* C8 witness: the call was rejected after an initialize() that failed.
C8_Witness ==
    /\ CycleEnded /\ outcome = "rejected" /\ result = "raised"
    /\ exchange_manager = "object" /\ ~is_initialized

\* C10: the stages of a cycle run in the order fetch, generate, assess,
\* execute, report, none before the one before it; after a stage raises no
\* later stage runs: no order after a failed fetch, generate or assess, and
\* no completed-cycle metric for a failed cycle.
StageRank(st) ==
    CASE st = "fetch" -> 1
      [] st = "generate" -> 2
      [] st = "assess" -> 3
      [] st = "execute" -> 4
      [] st = "report" -> 5
      [] st = "handle_error" -> 6

C10_StagesInOrder ==
    (last_call = "run_cycle") =>
        /\ \A i, j \in DOMAIN trace :
              i < j => \/ StageRank(trace[i]) < StageRank(trace[j])
                       \/ (trace[i] = "execute" /\ trace[j] = "execute")
        /\ \A i \in DOMAIN trace :
              /\ trace[i] = "generate" => i > 1 /\ trace[i - 1] = "fetch"
              /\ trace[i] = "assess" => i > 1 /\ trace[i - 1] = "generate"
              /\ trace[i] = "execute" => i > 1 /\ trace[i - 1] \in {"assess", "execute"}
              /\ trace[i] = "report" => i > 1 /\ trace[i - 1] \in {"assess", "execute"}
              /\ trace[i] = "handle_error" => i > 1 /\ trace[i - 1] = failed_stage
        /\ Len(orders) = Occurrences(trace, "execute")
        /\ failed_stage # "none" =>
              /\ reported = <<>>
              /\ \A i \in DOMAIN trace :
                    StageRank(trace[i]) > StageRank(failed_stage)
                        => trace[i] = "handle_error"
              /\ failed_stage \in {"fetch", "generate", "assess"} => orders = <<>>

\* C10 witness: signals were generated, the assessment raised, the cycle ended.
C10_Witness ==
    /\ CycleEnded /\ failed_stage = "assess"
    /\ signals # <<>> /\ Len(signals[1]) > 0

\* In the app no run_cycle() call raises: the loop body's except clause is
\* never entered.
AppCycleNeverRaises ==
    (app_pc = "in_cycle" /\ pc = "idle") => result = "returned"

Dispatched == [i \in 1..Len(orders) |-> orders[i].signal]

SomeDispatchFailed == \E i \in 1..Len(orders) : ~orders[i].ok

\* C11: every approved signal is dispatched exactly once and in the order of
\* the approved list, whether or not an earlier dispatch raised: during the
\* loop the dispatched signals followed by the waiting ones are the approved
\* list, and once the loop is over the dispatched signals are the approved
\* list.
C11_EveryApprovedSignalDispatchedOnce ==
    (last_call = "run_cycle" /\ risk_assessment # <<>>
        /\ risk_assessment[1].can_trade)
    => /\ pc = "execute"
          => Dispatched \o pending = risk_assessment[1].approved_signals
       /\ pc \in {"report", "handle_error", "idle"}
          => Dispatched = risk_assessment[1].approved_signals

\* the first of two dispatches raised and the second one was still made
C11_Witness ==
    /\ pc = "report"
    /\ Len(orders) = 2
    /\ ~orders[1].ok
    /\ orders[2].signal = risk_assessment[1].approved_signals[2]

\* C12: a cycle in which dispatches fail and no stage fails is not a failed
\* cycle: a dispatch step never reaches the error handler and changes
\* neither the error count nor the emergency stop, and the cycle ends
\* reported as completed with the count and the stop as they were.
C12_DispatchFailureIsNotCycleFailure ==
    [][ /\ (pc = "execute" /\ pc' # pc) => pc' = "report"
        /\ pc = "execute"
           => /\ error_count' = error_count
              /\ emergency_stop' = emergency_stop
              /\ failed_stage' = failed_stage
        /\ (pc = "report" /\ pc' = "idle" /\ SomeDispatchFailed)
           => /\ outcome' = "completed"
              /\ result' = "returned"
              /\ error_count' = error_count
              /\ emergency_stop' = emergency_stop
              /\ Len(reported') = 1
              /\ reported'[1].cycle_completed
              /\ Occurrences(trace', "handle_error") = 0 ]_vars

\* a cycle ended as completed although one of its dispatches raised
C12_Witness ==
    /\ CycleEnded
    /\ outcome = "completed"
    /\ SomeDispatchFailed
    /\ failed_stage = "none"
    /\ Len(reported) = 1

(***************************************************************************)
(* Initialization                                                          *)
(***************************************************************************)
\* the component initializations of initialize(), in the order of the code
InitOps == <<"exchange.initialize", "data.initialize", "metrics.initialize">>

InitPcs == {"init_exchange", "init_data", "init_metrics"}

\* C13: initialize() starts the exchange, data and metrics components in that
\* order, each once; when one of them fails the call raises at once with
\* nothing started after it and is_initialized still false, and the
\* application enters neither the main loop nor any cycle.
C13_InitFailureStopsStartup ==
    /\ [](last_call = "initialize"
            => /\ \A i \in 1..Len(trace) : i <= Len(InitOps) => trace[i] = InitOps[i]
               /\ pc \in InitPcs => trace = SubSeq(InitOps, 1, Len(trace)))
    /\ [][(pc \in InitPcs /\ result' = "raised")
            => /\ pc' = "idle"
               /\ ~is_initialized'
               /\ Len(trace') <= Len(InitOps)
               /\ trace' = SubSeq(InitOps, 1, Len(trace'))]_vars
    /\ [](~ever_initialized
            => /\ ~is_initialized
               /\ last_call # "run_cycle"
               /\ ~running
               /\ app_pc \in {"start", "initializing", "finally", "cleaning", "exited"})

\* the data component failed to initialize: metrics was never created and the
\* application ended without a cycle
C13_Witness ==
    /\ app_pc = "exited"
    /\ ~ever_initialized
    /\ exchange_manager = "object"
    /\ data_manager = "object"
    /\ metrics_collector = "None"

\* a connectivity probe of the call in progress reported a failure, by its
\* value or by an exception
ProbeFailed ==
    \E i \in 1..Len(trace) :
        trace[i] \in {"exchange.test_connections:false",
                      "exchange.test_connections:raise",
                      "data.test_connection:false",
                      "data.test_connection:raise"}

\* C14: the manager is initialized only if every safety check passed: when
\* test_connections() or test_connection() returned false or raised,
\* initialize() has raised and is_initialized is still false (so that the
\* application runs no cycle).
C14_InitializedOnlyIfChecksPass ==
    (last_call = "initialize" /\ pc = "idle" /\ ProbeFailed)
    => (result = "raised" /\ ~is_initialized)

(***************************************************************************)
(* Teardown                                                                *)
(***************************************************************************)
\* position of a release when the components are released in the reverse of
\* the order in which initialize() acquired them
ReleaseRank(op) ==
    CASE op = "metrics.cleanup" -> 1
      [] op = "data.cleanup" -> 2
      [] op = "exchange.cleanup" -> 3
      [] OTHER -> 0

\* C15: cleanup() releases the components in reverse acquisition order:
\* metrics first, then data, then exchange.
C15_ReleaseInReverseOrder ==
    last_call = "cleanup"
    => \A i, j \in 1..Len(trace) :
          i < j => ReleaseRank(trace[i]) < ReleaseRank(trace[j])

\* the release the cleanup() call makes for a component it holds
ReleaseOf ==
    [c \in {"exchange", "data", "metrics"} |->
        CASE c = "exchange" -> [held |-> exchange_manager = "object", op |-> "exchange.cleanup"]
          [] c = "data" -> [held |-> data_manager = "object", op |-> "data.cleanup"]
          [] c = "metrics" -> [held |-> metrics_collector = "object", op |-> "metrics.cleanup"]]

\* C16: cleanup() attempts the release of every component it holds even when
\* a release fails, and the failure is not propagated: the call returns and
\* every held component had its cleanup attempted.
C16_EveryReleaseAttempted ==
    (last_call = "cleanup" /\ pc = "idle")
    => /\ result = "returned"
       /\ \A c \in DOMAIN ReleaseOf :
             ReleaseOf[c].held => Occurrences(trace, ReleaseOf[c].op) = 1

(***************************************************************************)
(* Shutdown                                                                *)
(***************************************************************************)
CycleInProgress == last_call = "run_cycle" /\ pc # "idle"

\* C17: a shutdown request only clears the running flag; the main loop is
\* left only at its test (or when initialize() failed), a cycle in flight
\* always runs to its end (completed, failed or skipped), and cleanup never
\* starts while a run_cycle() call is in progress.
C17_ShutdownWaitsForCycle ==
    /\ [][(running /\ ~running')
            => UNCHANGED <<bot_vars, ctl_vars, cycle_vars, hist_vars, fn_vars,
                           app_pc, handlers_installed, last_sleep>>]_vars
    /\ [][(app_pc = "in_cycle" /\ app_pc' # app_pc)
            => /\ pc = "idle"
               /\ result = "returned"
               /\ outcome \in {"completed", "failed", "skipped"}]_vars
    /\ [][(app_pc' = "finally" /\ app_pc # "finally")
            => app_pc \in {"loop_test", "initializing"}]_vars
    /\ [](app_pc \in {"finally", "cleaning", "exited"} => ~CycleInProgress)

\* the request arrived while a cycle was in flight and the cycle completed
C17_Witness ==
    /\ app_pc = "in_cycle"
    /\ shutdown_requested
    /\ ~running
    /\ CycleEnded
    /\ outcome = "completed"

(***************************************************************************)
(* Loop cadence                                                            *)
(***************************************************************************)
\* await asyncio.sleep(5), the pause of the except clause of the main loop
ErrorSleep == 5

\* C18: the loop sleeps 1 time unit after a successful cycle and 5 time units
\* after a failed cycle (a cycle whose stage error went to the error
\* handler).
C18_SleepFollowsCycleOutcome ==
    app_pc = "sleeping"
    => last_sleep = (IF outcome = "failed" THEN ErrorSleep ELSE CycleSleep)

(***************************************************************************)
(* Signal generation                                                       *)
(***************************************************************************)
\* a snapshot of the data model: every 'rsi' present is a number of 0..100
ValidSnapshot(m) ==
    \A s \in DOMAIN m :
        "rsi" \in DOMAIN m[s]
        => (IsNumber(m[s]["rsi"]) /\ m[s]["rsi"].val >= 0 /\ m[s]["rsi"].val <= 100)

\* what the claim gives for one symbol
ClaimedAction(m, strat, s) ==
    IF s \notin DOMAIN m \/ "rsi" \notin DOMAIN m[s]
    THEN "none"
    ELSE IF m[s]["rsi"].val < strat.entry.rsi_low.val THEN "buy"
    ELSE IF m[s]["rsi"].val > strat.exit.rsi_high.val THEN "sell"
    ELSE "none"

C20_NoShutdownRequestLost ==
    [][(shutdown_requested /\ app_pc = "loop_test") => app_pc' # "in_cycle"]_vars
====
